---- MODULE Spec2Model ----
(***************************************************************************)
(* Model of libui's GTK+ standard dialogs (unix/stddialogs.c): the file    *)
(* chooser wrapper filedialog() with its four entry points and the message *)
(* box wrapper msgbox() with its two entry points.  The toolkit objects    *)
(* (dialog widget, file filters, the pattern buffer on the heap) are state *)
(* variables; every toolkit call the code makes is appended to trace.      *)
(***************************************************************************)
EXTENDS Integers, Sequences, FiniteSets, TLC

\* ---------------------------------------------------------------- bounds
MaxFilters == 2
MaxExts == 2

\* ------------------------------------------------------------ input sets
Names == {"Images"}
Windows == {"w1"}
Paths == {"/home/u/a.png", "/home/u/b.txt"}
NonLocalURI == "sftp://host/c.png"
Titles == {"Title"}
Descriptions == {"Description"}

NULL == "NULL"
NUL == "NUL"
Uninit == "?"

SeqsUpTo(S, n) == UNION {[1..k -> S] : k \in 0..n}
\* extension strings: the empty one and a longer one
ExtStrings == {<<>>, <<"p", "n", "g">>}
uiFileTypeFilter == [name : Names, extensions : SeqsUpTo(ExtStrings, MaxExts)]
FilterLists == SeqsUpTo(uiFileTypeFilter, MaxFilters)
ParentRefs == Windows \cup {NULL}

\* -------------------------------------------------------- toolkit values
GTK_RESPONSE_ACCEPT == "GTK_RESPONSE_ACCEPT"
GTK_RESPONSE_CANCEL == "GTK_RESPONSE_CANCEL"
GTK_RESPONSE_DELETE_EVENT == "GTK_RESPONSE_DELETE_EVENT"
GTK_RESPONSE_OK == "GTK_RESPONSE_OK"
FileResponses == {GTK_RESPONSE_ACCEPT, GTK_RESPONSE_CANCEL, GTK_RESPONSE_DELETE_EVENT}
MsgResponses == {GTK_RESPONSE_OK, GTK_RESPONSE_DELETE_EVENT}

FileOps == {"uiOpenFile", "uiOpenFolder", "uiSaveFile", "uiSaveFile2"}
MsgOps == {"uiMsgBox", "uiMsgBoxError"}

VARIABLES
    pc,           \* position in the current call
    op,           \* entry point of the current (or last) call
    parent,       \* its uiWindow * argument
    filters,      \* its filters argument (filters_len = Len(filters))
    title,        \* msgbox title argument
    description,  \* msgbox description argument
    i, j,         \* loop counters of filedialog
    gfilter,      \* filedialog local: current GtkFileFilter (index in filterObjs, 0 = none)
    pattern,      \* filedialog local: NULL or "blk" (address of the heap block)
    pattern_cap,  \* filedialog local
    response,     \* filedialog local
    filename,     \* filedialog local
    result,       \* value returned to the caller
    fcd,          \* the file chooser dialog widget
    md,           \* the message dialog widget
    filterObjs,   \* GtkFileFilter objects created by the current call
    heapBytes,    \* contents of the pattern heap block
    heapState,    \* "none", "live" or "freed"
    frees,        \* number of uiprivFree calls of the current call
    liveWidgets,  \* dialog widgets created by this component and not yet destroyed
    selection,    \* what the user has selected in the file chooser
    ub,           \* some memory access of the current call was out of bounds
    trace,        \* toolkit and allocator calls of the current call, in order
    prevSave      \* history: outcome of the preceding uiSaveFile call, see uiSaveFile2

vars == <<pc, op, parent, filters, title, description, i, j, gfilter, pattern,
          pattern_cap, response, filename, result, fcd, md, filterObjs,
          heapBytes, heapState, frees, liveWidgets, selection, ub, trace, prevSave>>

\* ------------------------------------------------------- pure operations
\* windowWindow(w): the GtkWindow behind a uiWindow, or NULL
uiControlHandle(w) == [w1 |-> "GtkWindow_w1"][w]
windowWindow(w) == IF w # NULL THEN uiControlHandle(w) ELSE NULL

strlen(s) == Len(s)

\* number of bytes the code reserves for the pattern of an extension
M_PatternNeed(ext_len) == 2 + ext_len
PatternNeed(ext_len) == 3 + ext_len

\* realloc: keeps the old bytes, the new ones are not initialised
uiprivRealloc(bytes, n) == [k \in 1..n |-> IF k <= Len(bytes) THEN bytes[k] ELSE Uninit]

\* the bytes sprintf(pattern, "*.%s", ext) produces
M_FormatPattern(ext) == <<"*", ".">> \o ext
FormatPattern(ext) == <<"*", ".">> \o ext \o <<NUL>>

\* the block after sprintf wrote out at its start (bytes past the block are lost)
WriteBytes(bytes, out) == [k \in 1..Len(bytes) |-> IF k <= Len(out) THEN out[k] ELSE bytes[k]]

\* the C string a reader finds at the start of the block
RECURSIVE CString(_)
CString(bytes) ==
    IF bytes = <<>> \/ Head(bytes) = NUL THEN <<>>
    ELSE <<Head(bytes)>> \o CString(Tail(bytes))

Range(s) == {s[k] : k \in 1..Len(s)}

\* GtkFileChooser keeps a list of filters; adding one already in it is ignored
gtk_file_chooser_add_filter(list, g) == IF g \in Range(list) THEN list ELSE Append(list, g)

\* a filter added to a chooser is owned by it from then on
SinkFilter(objs, g) == [objs EXCEPT ![g].state = IF @ = "floating" THEN "owned" ELSE @]

\* the selection as a local filename; NULL when it has no local filename
gtk_file_chooser_get_filename(sel) == IF sel \in Paths THEN sel ELSE NULL

\* destroying the chooser releases the filters it owns
ReleaseOwned(objs) == [g \in 1..Len(objs) |->
    IF objs[g].state = "owned" THEN [objs[g] EXCEPT !.state = "released"] ELSE objs[g]]

M_gtk_widget_destroy(w) == w
gtk_widget_destroy(w) == [w EXCEPT !.state = "destroyed"]

LiveCount(w) == IF w.state = "alive" THEN 1 ELSE 0

\* the test of line 46
M_IsAccept(r) == r # GTK_RESPONSE_CANCEL
IsAccept(r) == r = GTK_RESPONSE_ACCEPT

\* what the user can select: non-local files only when local_only is off
Selectable(dlg) == IF dlg.local_only THEN Paths ELSE Paths \cup {NonLocalURI}

NoFcd == [state |-> "none", parent |-> NULL, mode |-> "none", confirm |-> "none",
          local_only |-> TRUE, select_multiple |-> FALSE, show_hidden |-> FALSE,
          do_overwrite_confirmation |-> FALSE, create_folders |-> TRUE,
          filters |-> <<>>]
NoMd == [state |-> "none", parent |-> NULL, flags |-> "none", type |-> "none",
         buttons |-> "none", text |-> "none", secondary |-> "none"]
NoPrev == [valid |-> FALSE, parent |-> NULL, response |-> "none", selection |-> "none",
           trace |-> <<>>, result |-> "none"]

\* arguments the entry points pass to filedialog
uiOpenFileArgs == [mode |-> "GTK_FILE_CHOOSER_ACTION_OPEN", confirm |-> "_Open"]
uiOpenFolderArgs == [mode |-> "GTK_FILE_CHOOSER_ACTION_SELECT_FOLDER", confirm |-> "_Open"]
uiSaveFileArgs == [mode |-> "GTK_FILE_CHOOSER_ACTION_SAVE", confirm |-> "_Save"]
M_uiSaveFile2Args == [mode |-> "GTK_FILE_CHOOSER_ACTION_SAVE", confirm |-> "_Open"]
uiSaveFile2Args == [mode |-> "GTK_FILE_CHOOSER_ACTION_SAVE", confirm |-> "_Save"]

\* arguments the entry points pass to msgbox
uiMsgBoxArgs == [type |-> "GTK_MESSAGE_OTHER", buttons |-> "GTK_BUTTONS_OK"]
M_uiMsgBoxErrorArgs == [type |-> "GTK_MESSAGE_OTHER", buttons |-> "GTK_BUTTONS_OK"]
uiMsgBoxErrorArgs == [type |-> "GTK_MESSAGE_ERROR", buttons |-> "GTK_BUTTONS_OK"]

\* ------------------------------------------------------------------ Init
Init ==
    /\ pc = "idle"
    /\ op = "none"
    /\ parent = NULL
    /\ filters = <<>>
    /\ title = "none"
    /\ description = "none"
    /\ i = 0
    /\ j = 0
    /\ gfilter = 0
    /\ pattern = NULL
    /\ pattern_cap = 0
    /\ response = "none"
    /\ filename = NULL
    /\ result = "none"
    /\ fcd = NoFcd
    /\ md = NoMd
    /\ filterObjs = <<>>
    /\ heapBytes = <<>>
    /\ heapState = "none"
    /\ frees = 0
    /\ liveWidgets = 0
    /\ selection = "none"
    /\ ub = FALSE
    /\ trace = <<>>
    /\ prevSave = NoPrev

Idle == pc = "idle"

\* the preceding uiSaveFile outcome is kept for a uiSaveFile2 call without filters
KeepPrev(nextOp, nextFilters) ==
    IF nextOp = "uiSaveFile2" /\ nextFilters = <<>> THEN prevSave ELSE NoPrev

\* --------------------------------------------------------------- actions
\* filedialog, lines 16-28: create the chooser, set its options, pattern = NULL
filedialog_enter(o, p, args, fl) ==
    /\ Idle
    /\ prevSave' = KeepPrev(o, fl)
    /\ op' = o
    /\ parent' = p
    /\ filters' = fl
    /\ title' = "none"
    /\ description' = "none"
    /\ fcd' = [state |-> "alive", parent |-> windowWindow(p), mode |-> args.mode,
               confirm |-> args.confirm, local_only |-> FALSE,
               select_multiple |-> FALSE, show_hidden |-> TRUE,
               do_overwrite_confirmation |-> TRUE, create_folders |-> TRUE,
               filters |-> <<>>]
    /\ md' = NoMd
    /\ liveWidgets' = liveWidgets + 1
    /\ filterObjs' = <<>>
    /\ heapBytes' = <<>>
    /\ heapState' = "none"
    /\ frees' = 0
    /\ pattern' = NULL
    /\ pattern_cap' = 0
    /\ i' = 0
    /\ j' = 0
    /\ gfilter' = 0
    /\ response' = "none"
    /\ filename' = NULL
    /\ result' = "none"
    /\ selection' = "none"
    /\ ub' = FALSE
    /\ trace' = << <<"gtk_file_chooser_dialog_new", windowWindow(p), args.mode, args.confirm>>,
                   <<"gtk_file_chooser_set_local_only", FALSE>>,
                   <<"gtk_file_chooser_set_select_multiple", FALSE>>,
                   <<"gtk_file_chooser_set_show_hidden", TRUE>>,
                   <<"gtk_file_chooser_set_do_overwrite_confirmation", TRUE>>,
                   <<"gtk_file_chooser_set_create_folders", TRUE>> >>
    /\ pc' = "outer"

uiOpenFile == \E p \in ParentRefs : filedialog_enter("uiOpenFile", p, uiOpenFileArgs, <<>>)

uiOpenFolder == \E p \in ParentRefs : filedialog_enter("uiOpenFolder", p, uiOpenFolderArgs, <<>>)

uiSaveFile == \E p \in ParentRefs : filedialog_enter("uiSaveFile", p, uiSaveFileArgs, <<>>)

uiSaveFile2 ==
    /\ Idle
    /\ \E p \in ParentRefs, fl \in FilterLists :
          filedialog_enter("uiSaveFile2", p, uiSaveFile2Args, fl)

\* lines 29-31: next filter, gtk_file_filter_new and gtk_file_filter_set_name
OuterIter ==
    /\ pc = "outer"
    /\ i < Len(filters)
    /\ filterObjs' = Append(filterObjs,
           [name |-> filters[i + 1].name, patterns |-> <<>>, state |-> "floating"])
    /\ gfilter' = Len(filterObjs) + 1
    /\ trace' = trace \o << <<"gtk_file_filter_new", Len(filterObjs) + 1>>,
                            <<"gtk_file_filter_set_name", Len(filterObjs) + 1, filters[i + 1].name>> >>
    /\ j' = 0
    /\ pc' = "inner"
    /\ UNCHANGED <<op, parent, filters, title, description, i, pattern, pattern_cap,
                   response, filename, result, fcd, md, heapBytes, heapState, frees,
                   liveWidgets, selection, ub, prevSave>>

\* lines 32-37: next extension, grow the pattern buffer when it is too small
InnerGrow ==
    /\ pc = "inner"
    /\ j < Len(filters[i + 1].extensions)
    /\ LET ext_len == strlen(filters[i + 1].extensions[j + 1])
           need == PatternNeed(ext_len)
       IN IF need > pattern_cap
          THEN /\ heapBytes' = uiprivRealloc(heapBytes, need)
               /\ heapState' = "live"
               /\ pattern' = "blk"
               /\ pattern_cap' = need
               /\ trace' = Append(trace, <<"uiprivRealloc", need>>)
          ELSE UNCHANGED <<heapBytes, heapState, pattern, pattern_cap, trace>>
    /\ pc' = "write"
    /\ UNCHANGED <<op, parent, filters, title, description, i, j, gfilter, response,
                   filename, result, fcd, md, filterObjs, frees, liveWidgets,
                   selection, ub, prevSave>>

\* lines 38-40: sprintf, gtk_file_filter_add_pattern, gtk_file_chooser_add_filter
InnerWrite ==
    /\ pc = "write"
    /\ LET out == FormatPattern(filters[i + 1].extensions[j + 1])
           written == WriteBytes(heapBytes, out)
           read == CString(written)
       IN /\ heapBytes' = written
          /\ ub' = (ub \/ pattern = NULL \/ heapState # "live" \/ Len(out) > Len(heapBytes)
                       \/ NUL \notin Range(written))
          /\ filterObjs' = SinkFilter(
                 [filterObjs EXCEPT ![gfilter].patterns = Append(@, read)], gfilter)
          /\ fcd' = [fcd EXCEPT !.filters = gtk_file_chooser_add_filter(@, gfilter)]
          /\ trace' = trace \o << <<"sprintf", out>>,
                                  <<"gtk_file_filter_add_pattern", gfilter, read>>,
                                  <<"gtk_file_chooser_add_filter", gfilter>> >>
    /\ j' = j + 1
    /\ pc' = "inner"
    /\ UNCHANGED <<op, parent, filters, title, description, i, gfilter, pattern,
                   pattern_cap, response, filename, result, md, heapState, frees,
                   liveWidgets, selection, prevSave>>

\* line 32 false: the inner loop ends, i++
InnerExit ==
    /\ pc = "inner"
    /\ j >= Len(filters[i + 1].extensions)
    /\ i' = i + 1
    /\ gfilter' = 0
    /\ pc' = "outer"
    /\ UNCHANGED <<op, parent, filters, title, description, j, pattern, pattern_cap,
                   response, filename, result, fcd, md, filterObjs, heapBytes,
                   heapState, frees, liveWidgets, selection, ub, trace, prevSave>>

\* line 29 false, line 43: the outer loop ends, the pattern buffer is freed
OuterExit ==
    /\ pc = "outer"
    /\ i >= Len(filters)
    /\ IF pattern # NULL
       THEN /\ heapState' = "freed"
            /\ frees' = frees + 1
            /\ ub' = (ub \/ heapState # "live")
            /\ trace' = Append(trace, <<"uiprivFree">>)
       ELSE UNCHANGED <<heapState, frees, ub, trace>>
    /\ pc' = "run"
    /\ UNCHANGED <<op, parent, filters, title, description, i, j, gfilter, pattern,
                   pattern_cap, response, filename, result, fcd, md, filterObjs,
                   heapBytes, liveWidgets, selection, prevSave>>

\* line 45: gtk_dialog_run blocks until the user responds
DialogRun ==
    /\ pc = "run"
    /\ \E r \in FileResponses, sel \in Selectable(fcd) :
          /\ response' = r
          /\ selection' = sel
          /\ trace' = Append(trace, <<"gtk_dialog_run", r>>)
    /\ pc' = "responded"
    /\ UNCHANGED <<op, parent, filters, title, description, i, j, gfilter, pattern,
                   pattern_cap, filename, result, fcd, md, filterObjs, heapBytes,
                   heapState, frees, liveWidgets, ub, prevSave>>

\* lines 46-49: any response but accept: destroy the dialog, return NULL
filedialog_cancel ==
    /\ pc = "responded"
    /\ ~IsAccept(response)
    /\ fcd' = gtk_widget_destroy(fcd)
    /\ liveWidgets' = liveWidgets - LiveCount(fcd) + LiveCount(gtk_widget_destroy(fcd))
    /\ filterObjs' = IF gtk_widget_destroy(fcd).state = "destroyed"
                     THEN ReleaseOwned(filterObjs) ELSE filterObjs
    /\ trace' = Append(trace, <<"gtk_widget_destroy">>)
    /\ result' = NULL
    /\ pc' = "done"
    /\ UNCHANGED <<op, parent, filters, title, description, i, j, gfilter, pattern,
                   pattern_cap, response, filename, md, heapBytes, heapState, frees,
                   selection, ub, prevSave>>

\* lines 50-52: read the filename, destroy the dialog, return the filename
M_filedialog_accept ==
    /\ pc = "responded"
    /\ IsAccept(response)
    /\ filename' = gtk_file_chooser_get_filename(selection)
    /\ fcd' = gtk_widget_destroy(fcd)
    /\ liveWidgets' = liveWidgets - LiveCount(fcd) + LiveCount(gtk_widget_destroy(fcd))
    /\ filterObjs' = IF gtk_widget_destroy(fcd).state = "destroyed"
                     THEN ReleaseOwned(filterObjs) ELSE filterObjs
    /\ trace' = trace \o << <<"gtk_widget_destroy">>,
                            <<"gtk_file_chooser_get_filename", gtk_file_chooser_get_filename(selection)>> >>
    /\ result' = gtk_file_chooser_get_filename(selection)
    /\ pc' = "done"
    /\ UNCHANGED <<op, parent, filters, title, description, i, j, gfilter, pattern,
                   pattern_cap, response, md, heapBytes, heapState, frees,
                   selection, ub, prevSave>>

filedialog_accept ==
    /\ pc = "responded"
    /\ IsAccept(response)
    /\ filename' = gtk_file_chooser_get_filename(selection)
    /\ fcd' = gtk_widget_destroy(fcd)
    /\ liveWidgets' = liveWidgets - LiveCount(fcd) + LiveCount(gtk_widget_destroy(fcd))
    /\ filterObjs' = IF gtk_widget_destroy(fcd).state = "destroyed"
                     THEN ReleaseOwned(filterObjs) ELSE filterObjs
    /\ trace' = trace \o << <<"gtk_file_chooser_get_filename", gtk_file_chooser_get_filename(selection)>>,
                            <<"gtk_widget_destroy">> >>
    /\ result' = gtk_file_chooser_get_filename(selection)
    /\ pc' = "done"
    /\ UNCHANGED <<op, parent, filters, title, description, i, j, gfilter, pattern,
                   pattern_cap, response, md, heapBytes, heapState, frees,
                   selection, ub, prevSave>>

\* msgbox, lines 79-82: create the message dialog and set its secondary text
msgbox_enter(o, p, t, d, args) ==
    /\ Idle
    /\ prevSave' = NoPrev
    /\ op' = o
    /\ parent' = p
    /\ filters' = <<>>
    /\ title' = t
    /\ description' = d
    /\ md' = [state |-> "alive", parent |-> windowWindow(p), flags |-> "GTK_DIALOG_MODAL",
              type |-> args.type, buttons |-> args.buttons, text |-> t, secondary |-> d]
    /\ fcd' = NoFcd
    /\ liveWidgets' = liveWidgets + 1
    /\ filterObjs' = <<>>
    /\ heapBytes' = <<>>
    /\ heapState' = "none"
    /\ frees' = 0
    /\ pattern' = NULL
    /\ pattern_cap' = 0
    /\ i' = 0
    /\ j' = 0
    /\ gfilter' = 0
    /\ response' = "none"
    /\ filename' = NULL
    /\ result' = "none"
    /\ selection' = "none"
    /\ ub' = FALSE
    /\ trace' = << <<"gtk_message_dialog_new", windowWindow(p), "GTK_DIALOG_MODAL",
                     args.type, args.buttons, t>>,
                   <<"gtk_message_dialog_format_secondary_text", d>> >>
    /\ pc' = "msgrun"

uiMsgBox ==
    \E p \in ParentRefs, t \in Titles, d \in Descriptions :
        msgbox_enter("uiMsgBox", p, t, d, uiMsgBoxArgs)

uiMsgBoxError ==
    \E p \in ParentRefs, t \in Titles, d \in Descriptions :
        msgbox_enter("uiMsgBoxError", p, t, d, uiMsgBoxErrorArgs)

\* line 83: gtk_dialog_run blocks until the user dismisses the message
MsgRun ==
    /\ pc = "msgrun"
    /\ \E r \in MsgResponses :
          /\ response' = r
          /\ trace' = Append(trace, <<"gtk_dialog_run", r>>)
    /\ pc' = "msgdismissed"
    /\ UNCHANGED <<op, parent, filters, title, description, i, j, gfilter, pattern,
                   pattern_cap, filename, result, fcd, md, filterObjs, heapBytes,
                   heapState, frees, liveWidgets, selection, ub, prevSave>>

\* lines 84-85: destroy the message dialog and return
msgbox_return ==
    /\ pc = "msgdismissed"
    /\ md' = gtk_widget_destroy(md)
    /\ liveWidgets' = liveWidgets - LiveCount(md) + LiveCount(gtk_widget_destroy(md))
    /\ trace' = Append(trace, <<"gtk_widget_destroy">>)
    /\ result' = "void"
    /\ pc' = "done"
    /\ UNCHANGED <<op, parent, filters, title, description, i, j, gfilter, pattern,
                   pattern_cap, response, filename, fcd, filterObjs, heapBytes,
                   heapState, frees, selection, ub, prevSave>>

\* the call has returned: the caller has the result, the frame of the call is gone
CallerContinues ==
    /\ pc = "done"
    /\ prevSave' = IF op = "uiSaveFile"
                   THEN [valid |-> TRUE, parent |-> parent, response |-> response,
                         selection |-> selection, trace |-> trace, result |-> result]
                   ELSE NoPrev
    /\ pc' = "idle"
    /\ op' = "none"
    /\ parent' = NULL
    /\ filters' = <<>>
    /\ title' = "none"
    /\ description' = "none"
    /\ i' = 0
    /\ j' = 0
    /\ gfilter' = 0
    /\ pattern' = NULL
    /\ pattern_cap' = 0
    /\ response' = "none"
    /\ filename' = NULL
    /\ result' = "none"
    /\ fcd' = NoFcd
    /\ md' = NoMd
    /\ filterObjs' = <<>>
    /\ heapBytes' = <<>>
    /\ heapState' = "none"
    /\ frees' = 0
    /\ selection' = "none"
    /\ ub' = FALSE
    /\ trace' = <<>>
    /\ UNCHANGED liveWidgets

Next ==
    \/ uiOpenFile
    \/ uiOpenFolder
    \/ uiSaveFile
    \/ uiSaveFile2
    \/ OuterIter
    \/ InnerGrow
    \/ InnerWrite
    \/ InnerExit
    \/ OuterExit
    \/ DialogRun
    \/ filedialog_cancel
    \/ filedialog_accept
    \/ uiMsgBox
    \/ uiMsgBoxError
    \/ MsgRun
    \/ msgbox_return
    \/ CallerContinues

Spec == Init /\ [][Next]_vars

\* ------------------------------------------------------------ properties
Count(f) == Cardinality({k \in 1..Len(trace) : trace[k][1] = f})
Created == Count("gtk_file_chooser_dialog_new") + Count("gtk_message_dialog_new")
Returned == pc = "done"
PatternOf(ext) == <<"*", ".">> \o ext

\* C1: a file dialog call whose modal run ended with a response other than
\* accept returns NULL, whatever the parent and whatever is selected.
C1_CancelReturnsNull ==
    (Returned /\ op \in FileOps /\ response # GTK_RESPONSE_ACCEPT) => result = NULL

C1_Witness ==
    /\ Returned
    /\ op = "uiOpenFolder"
    /\ parent # NULL
    /\ response = GTK_RESPONSE_DELETE_EVENT
    /\ selection \in Paths
    /\ result = NULL

\* C2 (as claimed): a file dialog call whose modal run ended with accept
\* returns the chosen path, one absolute path and never NULL.
C2_AcceptReturnsPath ==
    (Returned /\ op \in FileOps /\ response = GTK_RESPONSE_ACCEPT)
        => (result # NULL /\ result \in Paths)

\* C3 (as claimed): when uiSaveFile2's dialog is run, its filter list has one
\* entry per element of filters, in order, labelled with that element's name.
C3_OneEntryPerFilter ==
    (pc = "run" /\ op = "uiSaveFile2")
        => [k \in 1..Len(fcd.filters) |-> filterObjs[fcd.filters[k]].name]
               = [k \in 1..Len(filters) |-> filters[k].name]

\* C4: every pattern attached to the filter object of filter g is "*." followed
\* by the extension it was built from, in order, and nothing else is attached:
\* a finished filter has exactly the patterns of its own extensions, the one in
\* progress those of the extensions processed so far.
C4_PatternsExact ==
    op = "uiSaveFile2" =>
        \A g \in 1..Len(filterObjs) :
            LET n == IF g = gfilter THEN j ELSE Len(filters[g].extensions)
            IN filterObjs[g].patterns = [k \in 1..n |-> PatternOf(filters[g].extensions[k])]

C4_Witness ==
    /\ pc = "run"
    /\ Len(filters) = 2
    /\ filters[1].extensions = << <<"p", "n", "g">>, <<>> >>
    /\ filters[2].extensions = << <<"p", "n", "g">> >>
    /\ pattern_cap = 6
    /\ filterObjs[1].patterns = << <<"*", ".", "p", "n", "g">>, <<"*", ".">> >>
    /\ filterObjs[2].patterns = << <<"*", ".", "p", "n", "g">> >>

\* C5: uiSaveFile2 without filters, after a uiSaveFile call with the same parent
\* and the same user response, has made the same toolkit calls and returns the
\* same result; it registered no filter and never touched the allocator.
C5_EmptyFiltersLikeSaveFile ==
    (/\ Returned
     /\ op = "uiSaveFile2"
     /\ filters = <<>>
     /\ prevSave.valid
     /\ prevSave.parent = parent
     /\ prevSave.response = response
     /\ prevSave.selection = selection)
        => /\ trace = prevSave.trace
           /\ result = prevSave.result
           /\ Count("gtk_file_filter_new") = 0
           /\ Count("gtk_file_chooser_add_filter") = 0
           /\ Count("uiprivRealloc") = 0
           /\ Count("uiprivFree") = 0

C5_Witness ==
    /\ Returned
    /\ op = "uiSaveFile2"
    /\ filters = <<>>
    /\ prevSave.valid
    /\ prevSave.parent = parent
    /\ prevSave.response = response
    /\ prevSave.selection = selection
    /\ response = GTK_RESPONSE_ACCEPT
    /\ result \in Paths

\* C6: a returned call has created one dialog widget, run it once and destroyed
\* it once, the destroy being its last toolkit call; between calls no dialog
\* widget of this component is alive.
C6_OneDialogPerCall ==
    /\ liveWidgets \in {0, 1}
    /\ pc = "idle" => liveWidgets = 0
    /\ Returned =>
          /\ Created = 1
          /\ Count("gtk_dialog_run") = 1
          /\ Count("gtk_widget_destroy") = 1
          /\ trace[Len(trace)][1] = "gtk_widget_destroy"
          /\ liveWidgets = 0
          /\ fcd.state # "alive"
          /\ md.state # "alive"

C6_Witness ==
    /\ Returned
    /\ op = "uiSaveFile2"
    /\ Len(filters) = 2
    /\ response = GTK_RESPONSE_CANCEL
    /\ fcd.state = "destroyed"

\* C7 (as claimed): when uiSaveFile2 returns, no filter object it created is
\* still live and the pattern buffer, if allocated, was freed exactly once.
C7_AllReleased ==
    (Returned /\ op = "uiSaveFile2") =>
        /\ \A g \in 1..Len(filterObjs) : filterObjs[g].state = "released"
        /\ heapState # "live"
        /\ frees = Count("uiprivFree")
        /\ frees = (IF Count("uiprivRealloc") > 0 THEN 1 ELSE 0)

\* C8: a returned message box call has run its dialog to dismissal before
\* destroying it, offered the single OK button, yields no value, and its
\* toolkit calls depend on the entry point only through the message type:
\* GTK_MESSAGE_OTHER for uiMsgBox, GTK_MESSAGE_ERROR for uiMsgBoxError.
C8_MsgBoxBlocksUntilDismissed ==
    (Returned /\ op \in MsgOps) =>
        /\ result = "void"
        /\ response \in MsgResponses
        /\ trace = << <<"gtk_message_dialog_new", windowWindow(parent), "GTK_DIALOG_MODAL",
                        IF op = "uiMsgBox" THEN "GTK_MESSAGE_OTHER" ELSE "GTK_MESSAGE_ERROR",
                        "GTK_BUTTONS_OK", title>>,
                      <<"gtk_message_dialog_format_secondary_text", description>>,
                      <<"gtk_dialog_run", response>>,
                      <<"gtk_widget_destroy">> >>

C8_Witness ==
    /\ Returned
    /\ op = "uiMsgBoxError"
    /\ parent = NULL
    /\ response = GTK_RESPONSE_OK
    /\ md.type = "GTK_MESSAGE_ERROR"

\* C9: at every write into the pattern buffer the buffer is allocated and
\* pattern_cap is at least strlen(extension) + 3; pattern_cap equals the size
\* of the last allocation, is 0 with no buffer when a call starts, and never
\* decreases while the call runs.
C9_AtWrite ==
    /\ pc = "write" =>
          /\ pattern # NULL
          /\ heapState = "live"
          /\ pattern_cap >= strlen(filters[i + 1].extensions[j + 1]) + 3
    /\ pattern_cap = Len(heapBytes)
    /\ (pattern = NULL) = (pattern_cap = 0)
    /\ ~ub

C9_Step ==
    /\ (pc = "idle" /\ pc' = "outer") => (pattern_cap' = 0 /\ pattern' = NULL)
    /\ (pc # "idle" /\ pc' # "idle") => pattern_cap' >= pattern_cap

C9_BufferLargeEnough == [] C9_AtWrite /\ [][C9_Step]_vars

C9_Witness ==
    /\ pc = "inner"
    /\ i = 1
    /\ j = 2
    /\ filters[1].extensions = << <<>> >>
    /\ filters[2].extensions = << <<"p", "n", "g">>, <<>> >>
    /\ pattern_cap = 6
    /\ Count("uiprivRealloc") = 2
    /\ CString(heapBytes) = <<"*", ".">>

\* C10: the toolkit calls of a filedialog call come in the order create, options
\* and filters, free of the pattern buffer, run, read of the filename, destroy;
\* the dialog is created first, run and destroyed at most once, the filename
\* is read only on accept and before the destroy, and nothing follows the
\* destroy; a returned call has run and destroyed its dialog.
Phase(f) ==
    CASE f = "gtk_file_chooser_dialog_new" -> 1
      [] f = "uiprivFree" -> 3
      [] f = "gtk_dialog_run" -> 4
      [] f = "gtk_file_chooser_get_filename" -> 5
      [] f = "gtk_widget_destroy" -> 6
      [] OTHER -> 2

C10_CallOrder ==
    op \in FileOps =>
        /\ \A k \in 1..(Len(trace) - 1) : Phase(trace[k][1]) <= Phase(trace[k + 1][1])
        /\ trace[1][1] = "gtk_file_chooser_dialog_new"
        /\ Count("gtk_file_chooser_dialog_new") = 1
        /\ Count("uiprivFree") <= 1
        /\ Count("gtk_dialog_run") <= 1
        /\ Count("gtk_file_chooser_get_filename") <= 1
        /\ Count("gtk_widget_destroy") <= 1
        /\ Count("gtk_file_chooser_get_filename") = 1 => response = GTK_RESPONSE_ACCEPT
        /\ fcd.state = "destroyed" => Returned
        /\ Returned =>
              /\ Count("gtk_dialog_run") = 1
              /\ Count("gtk_widget_destroy") = 1
              /\ Count("gtk_file_chooser_get_filename")
                     = (IF response = GTK_RESPONSE_ACCEPT THEN 1 ELSE 0)

C10_Witness ==
    /\ Returned
    /\ op = "uiSaveFile2"
    /\ response = GTK_RESPONSE_ACCEPT
    /\ frees = 1
    /\ Len(fcd.filters) = 2
    /\ Count("gtk_file_chooser_get_filename") = 1
====
